---- MODULE Spec2Model ----
(***************************************************************************)
(* Model of booking_full_api.py: the URL normaliser, the calendar price    *)
(* extractor driven through a browser session, the upsert into the         *)
(* booking_ads table and the /scrape and /ads/{id} handlers.               *)
(*                                                                         *)
(* Strings are sequences of one-character strings.  A date key is a        *)
(* sequence of digits, compared the way Python compares str keys.          *)
(***************************************************************************)
EXTENDS Integers, Sequences, FiniteSets, TLC

\* ------------------------------------------------------------------ bounds
MaxPathLen == 2
MaxCells == 2
MaxRequests == 2
MaxMonthsCfg == 2
ApiMonths == 1

\* ------------------------------------------------------- program constants
DefaultMaxCalMonths == 12

\* ----------------------------------------------------------------- strings
RECURSIVE SeqsUpTo(_, _)
SeqsUpTo(S, n) ==
    IF n = 0 THEN {<<>>}
    ELSE LET shorter == SeqsUpTo(S, n - 1)
         IN  shorter \cup {Append(s, c) : s \in {t \in shorter : Len(t) = n - 1}, c \in S}

\* str.find(c, from): the least index >= from holding c, 0 when there is none
Find(s, c, from) ==
    LET hits == {i \in from..Len(s) : s[i] = c}
    IN  IF hits = {} THEN 0 ELSE CHOOSE i \in hits : \A j \in hits : i <= j

\* the least index >= from holding any character of cs, Len(s)+1 when none
FindAny(s, cs, from) ==
    LET hits == {i \in from..Len(s) : s[i] \in cs}
    IN  IF hits = {} THEN Len(s) + 1 ELSE CHOOSE i \in hits : \A j \in hits : i <= j

\* s[:n]
Prefix(s, n) == SubSeq(s, 1, IF n < Len(s) THEN n ELSE Len(s))

\* str.rstrip('/'): every trailing slash is removed
RECURSIVE rstrip_slash(_)
rstrip_slash(s) ==
    IF s # <<>> /\ s[Len(s)] = "/" THEN rstrip_slash(SubSeq(s, 1, Len(s) - 1)) ELSE s

\* ------------------------------------------------------- URL normaliser
Letters == {"s", "S", "x", "h", "p", "k", "f"}

\* str.lower() on the alphabet: "S" is the only upper-case letter
Lower(c) == IF c = "S" THEN "s" ELSE c

\* urllib.parse.uses_netloc: '' and the http-like schemes, "s" standing for them
uses_netloc == {<<>>, <<"s">>}

\* urllib.parse.urlsplit: scheme, netloc, path, query, fragment
urlsplit(raw) ==
    LET i         == Find(raw, ":", 1)
        hasScheme == i > 1 /\ \A j \in 1..(i - 1) : raw[j] \in Letters
        scheme    == IF hasScheme THEN [j \in 1..(i - 1) |-> Lower(raw[j])] ELSE <<>>
        u1        == IF hasScheme THEN SubSeq(raw, i + 1, Len(raw)) ELSE raw
        hasNet    == Len(u1) >= 2 /\ u1[1] = "/" /\ u1[2] = "/"
        delim     == FindAny(u1, {"/", "?", "#"}, 3)
        netloc    == IF hasNet THEN SubSeq(u1, 3, delim - 1) ELSE <<>>
        u2        == IF hasNet THEN SubSeq(u1, delim, Len(u1)) ELSE u1
        h         == Find(u2, "#", 1)
        fragment  == IF h > 0 THEN SubSeq(u2, h + 1, Len(u2)) ELSE <<>>
        u3        == IF h > 0 THEN SubSeq(u2, 1, h - 1) ELSE u2
        q         == Find(u3, "?", 1)
        query     == IF q > 0 THEN SubSeq(u3, q + 1, Len(u3)) ELSE <<>>
        path      == IF q > 0 THEN SubSeq(u3, 1, q - 1) ELSE u3
    IN  [scheme |-> scheme, netloc |-> netloc, path |-> path,
         query |-> query, fragment |-> fragment]

\* urllib.parse.urlunsplit
urlunsplit(scheme, netloc, path, query, fragment) ==
    LET slashes == netloc # <<>>
                   \/ (scheme # <<>> /\ scheme \in uses_netloc
                       /\ Prefix(path, 2) # <<"/", "/">>)
        p1 == IF slashes /\ path # <<>> /\ path[1] # "/" THEN <<"/">> \o path ELSE path
        u1 == IF slashes THEN <<"/", "/">> \o netloc \o p1 ELSE path
        u2 == IF scheme # <<>> THEN scheme \o <<":">> \o u1 ELSE u1
        u3 == IF query # <<>> THEN u2 \o <<"?">> \o query ELSE u2
    IN  IF fragment # <<>> THEN u3 \o <<"#">> \o fragment ELSE u3

\* canonicalize_url with the query kept (a plausible slip in the urlunsplit call)
canonicalize_keep_query(raw_url) ==
    LET parts == urlsplit(raw_url)
    IN  rstrip_slash(urlunsplit(parts.scheme, parts.netloc, parts.path, parts.query, <<>>))

canonicalize_url(raw_url) ==
    LET parts == urlsplit(raw_url)
        clean == urlunsplit(parts.scheme, parts.netloc, parts.path, <<>>, <<>>)
    IN  rstrip_slash(clean)

\* text.encode('utf-8'): one code per character of the alphabet
Code(c) ==
    CASE c = "s" -> 115 [] c = "S" -> 83 [] c = "x" -> 120 [] c = "h" -> 104
      [] c = "p" -> 112 [] c = "k" -> 107 [] c = "f" -> 102 [] c = ":" -> 58
      [] c = "/" -> 47  [] c = "?" -> 63  [] c = "#" -> 35

\* hashlib.md5(...).hexdigest(), idealised as collision-free: the digest is
\* determined by, and determines, the encoded bytes
url_md5(text) == [algo |-> "md5", bytes |-> [i \in 1..Len(text) |-> Code(text[i])]]


\* ------------------------------------------------------ calendar data
\* data-date keys: fixed-width digit strings, as ISO dates are
Dates == {<<0, 2>>, <<1, 0>>}

\* str < str in Python: lexicographic on the characters
RECURSIVE StrLess(_, _)
StrLess(a, b) ==
    IF b = <<>> THEN FALSE
    ELSE IF a = <<>> THEN TRUE
    ELSE IF a[1] # b[1] THEN a[1] < b[1]
    ELSE StrLess(Tail(a), Tail(b))

\* texts of the price element: empty, no digit, zero, one digit, two digits
PriceTexts == {<<>>, <<"$">>, <<"$", "0">>, <<"$", "1">>, <<"1", "0">>}

Digits == {"0", "1"}
DigitVal(c) == IF c = "1" THEN 1 ELSE 0

\* re.sub(r"[^\d]", "", price_text)
StripNonDigits(text) == SelectSeq(text, LAMBDA c : c \in Digits)

\* int(digits) for a non-empty digit string
RECURSIVE ParseInt(_)
ParseInt(ds) ==
    IF ds = <<>> THEN 0
    ELSE 10 * ParseInt(SubSeq(ds, 1, Len(ds) - 1)) + DigitVal(ds[Len(ds)])

\* a span[data-date] cell: its date, whether the price element exists, the
\* element's text, and whether reading the cell's attribute raises (stale)
Cells ==
    {[date |-> d, found |-> TRUE, text |-> t, stale |-> FALSE] : d \in Dates, t \in PriceTexts}
    \cup {[date |-> d, found |-> FALSE, text |-> <<>>, stale |-> FALSE] : d \in Dates}
    \cup {[date |-> <<0, 2>>, found |-> FALSE, text |-> <<>>, stale |-> TRUE]}

Pages == SeqsUpTo(Cells, MaxCells)

\* the pages served while the API is exercised: an empty calendar, one priced day
ApiPages ==
    {<<>>, <<[date |-> <<0, 2>>, found |-> TRUE, text |-> <<"$", "1">>, stale |-> FALSE]>>}

\* a dict as the sequence of its items in insertion order
DictKeys(d) == {d[i][1] : i \in 1..Len(d)}
DictGet(d, k) == LET i == CHOOSE j \in 1..Len(d) : d[j][1] = k IN d[i][2]

\* d[k] = v: an existing key keeps its place, a new key goes last
DictSet(d, k, v) ==
    IF k \in DictKeys(d)
    THEN [i \in 1..Len(d) |-> IF d[i][1] = k THEN <<k, v>> ELSE d[i]]
    ELSE Append(d, <<k, v>>)

\* the dict as a mathematical mapping
AsMap(d) == [k \in DictKeys(d) |-> DictGet(d, k)]

\* a return that forgets the sort
UnsortedItems(d) == d

\* dict(sorted(prices.items())): items by ascending key
RECURSIVE SortedItems(_)
SortedItems(d) ==
    IF d = <<>> THEN <<>>
    ELSE LET i == CHOOSE j \in 1..Len(d) :
                      \A k \in 1..Len(d) : k = j \/ StrLess(d[j][1], d[k][1])
             rest == SubSeq(d, 1, i - 1) \o SubSeq(d, i + 1, Len(d))
         IN  <<d[i]>> \o SortedItems(rest)

\* the body of "for cell in ..." for one cell whose date could be read
ScanCell(pr, c) ==
    IF ~c.found THEN pr
    ELSE IF c.text = <<>> THEN pr
    ELSE LET digits == StripNonDigits(c.text)
         IN  IF digits = <<>> THEN pr
             ELSE LET price == ParseInt(digits)
                  IN  IF price # 0 THEN DictSet(pr, c.date, price) ELSE pr

\* the loop over the cells of one page: the prices after it, and whether an
\* exception left it (get_attribute on a stale cell is outside the inner try)
RECURSIVE ScanCells(_, _)
ScanCells(pr, cells) ==
    IF cells = <<>> THEN [prices |-> pr, raised |-> FALSE]
    ELSE IF Head(cells).stale THEN [prices |-> pr, raised |-> TRUE]
    ELSE ScanCells(ScanCell(pr, Head(cells)), Tail(cells))

\* --------------------------------------------------------------- store
Workers == {1, 2}

NextId(table) == Cardinality(table) + 1

\* a plain insert: a new row whatever the table holds
InsertRow(table, data) ==
    table \cup {[id |-> NextId(table), url |-> data.url, url_hash |-> data.url_hash,
                 calendar_prices |-> data.calendar_prices]}

\* an upsert whose conflict target is the id: the payload carries none, so
\* every call inserts
UpsertOnConflictId(table, data) == InsertRow(table, data)

\* .upsert(data, on_conflict="url_hash", ignore_duplicates=False)
Upsert(table, data) ==
    LET hit == {r \in table : r.url_hash = data.url_hash}
    IN  IF hit = {} THEN InsertRow(table, data)
        ELSE (table \ hit)
             \cup {[id |-> r.id, url |-> data.url, url_hash |-> data.url_hash,
                    calendar_prices |-> data.calendar_prices] : r \in hit}

\* resp.data of a successful upsert: the stored row
UpsertData(table, data) ==
    LET after == Upsert(table, data)
    IN  <<CHOOSE r \in after : r.url_hash = data.url_hash>>

\* --------------------------------------------------------------- inputs
U_plain == <<"s", ":", "/", "/", "h", "/", "p">>
U_query == <<"s", ":", "/", "/", "h", "/", "p", "/", "?", "k">>
U_other == <<"s", ":", "/", "/", "h", "/", "k">>
ApiUrls == {U_plain, U_query, U_other}

NoUrl == <<>>
NoRet == [kind |-> "none", value |-> <<>>]
NoResponse == [status |-> 0, data |-> <<>>]
NoGet == [ad_id |-> 0, select |-> "none", status |-> 0, data |-> <<>>]

VARIABLES
    MAX_CAL_MONTHS,   \* int(os.getenv("MAX_CAL_MONTHS", 12)), read once
    booking_ads,      \* the rows of the booking_ads table
    requests,         \* /scrape calls received so far
    pc,               \* where each worker's handler stands
    url,              \* the url query parameter of the call
    canonical_url, url_hash,
    fetched,          \* the URL _get_soup was called with
    driven,           \* the URL driver.get was called with
    driver,           \* "None", "live" or "quit"
    scanned,          \* calendar pages scanned
    clicks,           \* successful clicks on the next-page control
    prices,           \* the prices dict of scrape_calendar_prices
    ret,              \* how scrape_calendar_prices ended
    response,         \* the HTTP response of /scrape
    get_resp          \* the HTTP response of /ads/{id}

vars == <<MAX_CAL_MONTHS, booking_ads, requests, pc, url, canonical_url, url_hash,
          fetched, driven, driver, scanned, clicks, prices, ret, response,
          get_resp>>

config == <<MAX_CAL_MONTHS>>
store == <<booking_ads, get_resp>>
request == <<url, canonical_url, url_hash, fetched, response, requests>>
browser == <<driven, driver, scanned, clicks, prices, ret>>

Locals ==
    /\ pc = [p \in Workers |-> "idle"]
    /\ url = [p \in Workers |-> NoUrl]
    /\ canonical_url = [p \in Workers |-> NoUrl]
    /\ url_hash = [p \in Workers |-> url_md5(NoUrl)]
    /\ fetched = [p \in Workers |-> NoUrl]
    /\ driven = [p \in Workers |-> NoUrl]
    /\ driver = [p \in Workers |-> "None"]
    /\ scanned = [p \in Workers |-> 0]
    /\ clicks = [p \in Workers |-> 0]
    /\ prices = [p \in Workers |-> <<>>]
    /\ ret = [p \in Workers |-> NoRet]
    /\ response = [p \in Workers |-> NoResponse]

Init ==
    /\ MAX_CAL_MONTHS \in 1..ApiMonths
    /\ booking_ads = {}
    /\ requests = 0
    /\ get_resp = NoGet
    /\ Locals


\* ------------------------------------------------------- /scrape handler
Set(f, p, v) == [f EXCEPT ![p] = v]

\* the HTTP response the framework sends for the handler's outcome
Success(row) == [status |-> 200, data |-> <<row>>]
Failure(code) == [status |-> code, data |-> <<>>]

\* a /scrape call arrives at an idle worker
Receive(p, u) ==
    /\ pc[p] = "idle"
    /\ requests < MaxRequests
    /\ requests' = requests + 1
    /\ url' = Set(url, p, u)
    /\ canonical_url' = Set(canonical_url, p, NoUrl)
    /\ url_hash' = Set(url_hash, p, url_md5(NoUrl))
    /\ fetched' = Set(fetched, p, NoUrl)
    /\ driven' = Set(driven, p, NoUrl)
    /\ driver' = Set(driver, p, "None")
    /\ scanned' = Set(scanned, p, 0)
    /\ clicks' = Set(clicks, p, 0)
    /\ prices' = Set(prices, p, <<>>)
    /\ ret' = Set(ret, p, NoRet)
    /\ response' = Set(response, p, NoResponse)
    /\ pc' = Set(pc, p, "normalize")
    /\ UNCHANGED <<config, store>>

\* canonical_url = canonicalize_url(url); url_hash = url_md5(canonical_url)
Normalize(p) ==
    /\ pc[p] = "normalize"
    /\ canonical_url' = Set(canonical_url, p, canonicalize_url(url[p]))
    /\ url_hash' = Set(url_hash, p, url_md5(canonicalize_url(url[p])))
    /\ pc' = Set(pc, p, "static")
    /\ UNCHANGED <<config, store, url, fetched, response, requests, browser>>

\* the URL scrape hands to scrape_images_and_details and scrape_calendar_prices
ExtractorUrl(p) == url[p]

\* scrape_images_and_details: _get_soup either parses the page or raises the
\* 502 that ends the request; on success scrape_calendar_prices is entered
Static(p, ok) ==
    /\ pc[p] = "static"
    /\ fetched' = Set(fetched, p, ExtractorUrl(p))
    /\ IF ok
       THEN /\ pc' = Set(pc, p, "launch")
            /\ UNCHANGED response
       ELSE /\ pc' = Set(pc, p, "idle")
            /\ response' = Set(response, p, Failure(502))
    /\ UNCHANGED <<config, store, url, canonical_url, url_hash, requests, browser>>

\* --------------------------------------------- scrape_calendar_prices
\* the loop test off by one: a page too many
LoopOffByOne(p) == IF scanned[p] <= MAX_CAL_MONTHS THEN "page_scan" ELSE "return"

\* the for statement: the next page is scanned while pages remain
LoopTest(p) == IF scanned[p] < MAX_CAL_MONTHS THEN "page_scan" ELSE "return"

\* driver = webdriver.Chrome(...)
Launch(p, ok) ==
    /\ pc[p] = "launch"
    /\ driver' = Set(driver, p, IF ok THEN "live" ELSE "None")
    /\ pc' = Set(pc, p, IF ok THEN "navigate" ELSE "except")
    /\ UNCHANGED <<config, store, request, driven, scanned, clicks, prices, ret>>

\* driver.get(url)
Navigate(p, ok) ==
    /\ pc[p] = "navigate"
    /\ driven' = Set(driven, p, ExtractorUrl(p))
    /\ pc' = Set(pc, p, IF ok THEN "open_picker" ELSE "except")
    /\ UNCHANGED <<config, store, request, driver, scanned, clicks, prices, ret>>

\* wait for the date-picker trigger and click it; prices = {}; enter the loop
OpenPicker(p, ok) ==
    /\ pc[p] = "open_picker"
    /\ prices' = Set(prices, p, <<>>)
    /\ pc' = Set(pc, p, IF ok THEN LoopTest(p) ELSE "except")
    /\ UNCHANGED <<config, store, request, driven, driver, scanned, clicks, ret>>

\* wait for the calendar container (found: it is present within the wait) and
\* scan its cells
PageScan(p, found, cells) ==
    /\ pc[p] = "page_scan"
    /\ IF ~found
       THEN /\ pc' = Set(pc, p, "except")
            /\ UNCHANGED <<prices, scanned>>
       ELSE LET r == ScanCells(prices[p], cells)
            IN  /\ prices' = Set(prices, p, r.prices)
                /\ IF r.raised
                   THEN /\ pc' = Set(pc, p, "except")
                        /\ UNCHANGED scanned
                   ELSE /\ pc' = Set(pc, p, "advance")
                        /\ scanned' = Set(scanned, p, scanned[p] + 1)
    /\ UNCHANGED <<config, store, request, driven, driver, clicks, ret>>

\* find and click the next-page control, sleep; a failure breaks the loop
Advance(p, ok) ==
    /\ pc[p] = "advance"
    /\ IF ok
       THEN /\ clicks' = Set(clicks, p, clicks[p] + 1)
            /\ pc' = Set(pc, p, LoopTest(p))
       ELSE /\ pc' = Set(pc, p, "return")
            /\ UNCHANGED clicks
    /\ UNCHANGED <<config, store, request, driven, driver, scanned, prices, ret>>

\* return dict(sorted(prices.items())): the value waits for the finally clause
Return(p) ==
    /\ pc[p] = "return"
    /\ ret' = Set(ret, p, [kind |-> "return", value |-> SortedItems(prices[p])])
    /\ pc' = Set(pc, p, "finally")
    /\ UNCHANGED <<config, store, request, driven, driver, scanned, clicks, prices>>

\* except Exception: return {}
Except(p) ==
    /\ pc[p] = "except"
    /\ ret' = Set(ret, p, [kind |-> "except", value |-> <<>>])
    /\ pc' = Set(pc, p, "finally")
    /\ UNCHANGED <<config, store, request, driven, driver, scanned, clicks, prices>>

\* a finally clause that releases nothing
QuitsNever(p) == FALSE

\* whether the finally clause calls driver.quit()
QuitsDriver(p) == driver[p] # "None"

\* finally: if driver: driver.quit().  quit_ok: the call returns; otherwise it
\* raises, the exception replaces the pending return value and leaves scrape
\* uncaught, which the framework answers with 500
Finally(p, quit_ok) ==
    /\ pc[p] = "finally"
    /\ IF QuitsDriver(p)
       THEN /\ driver' = Set(driver, p, "quit")
            /\ IF quit_ok
               THEN /\ pc' = Set(pc, p, "save")
                    /\ UNCHANGED <<ret, response>>
               ELSE /\ ret' = Set(ret, p, [kind |-> "raise", value |-> <<>>])
                    /\ response' = Set(response, p, Failure(500))
                    /\ pc' = Set(pc, p, "idle")
       ELSE /\ quit_ok
            /\ pc' = Set(pc, p, "save")
            /\ UNCHANGED <<driver, ret, response>>
    /\ UNCHANGED <<config, store, url, canonical_url, url_hash, fetched, requests,
                   driven, scanned, clicks, prices>>

\* ------------------------------------------------------ save_to_supabase
\* the payload scrape assembles
Payload(p) ==
    [url |-> canonical_url[p], url_hash |-> url_hash[p], calendar_prices |-> ret[p].value]

\* row = save_to_supabase(payload) and the response.  outcome: "ok" the upsert
\* returns the stored row; "empty" resp.data is empty; "error" execute raises.
\* written: whether the store applied the upsert before answering
Save(p, outcome, written) ==
    /\ pc[p] = "save"
    /\ outcome = "ok" => written
    /\ booking_ads' = IF written THEN Upsert(booking_ads, Payload(p)) ELSE booking_ads
    /\ response' = Set(response, p,
                       IF outcome = "ok"
                       THEN Success(UpsertData(booking_ads, Payload(p))[1])
                       ELSE Failure(500))
    /\ pc' = Set(pc, p, "idle")
    /\ UNCHANGED <<config, get_resp, url, canonical_url, url_hash, fetched, requests, browser>>

\* ----------------------------------------------------------- /ads/{id}
AdIds == 1..(MaxRequests + 1)

\* what the select of get_ad did, and the handler's answer
GetResp(ad_id, select, status, data) ==
    [ad_id |-> ad_id, select |-> select, status |-> status, data |-> data]

\* get_ad with the 404 caught by the generic handler and turned into a 500
get_ad_generic(table, ad_id, store_ok) ==
    LET data == {r \in table : r.id = ad_id}
    IN  IF ~store_ok THEN GetResp(ad_id, "error", 500, <<>>)
        ELSE IF data = {} THEN GetResp(ad_id, "empty", 500, <<>>)
        ELSE GetResp(ad_id, "row", 200, <<CHOOSE r \in data : TRUE>>)

\* get_ad: the select raises (500), finds nothing (404) or finds the row
get_ad(table, ad_id, store_ok) ==
    LET data == {r \in table : r.id = ad_id}
    IN  IF ~store_ok THEN GetResp(ad_id, "error", 500, <<>>)
        ELSE IF data = {} THEN GetResp(ad_id, "empty", 404, <<>>)
        ELSE GetResp(ad_id, "row", 200, <<CHOOSE r \in data : TRUE>>)

\* a GET /ads/{ad_id} call, answered in one store query
GetAd(ad_id, store_ok) ==
    /\ get_resp = NoGet
    /\ get_resp' = get_ad(booking_ads, ad_id, store_ok)
    /\ UNCHANGED <<config, booking_ads, pc, request, browser>>

\* the response is sent
GetAdDone ==
    /\ get_resp # NoGet
    /\ get_resp' = NoGet
    /\ UNCHANGED <<config, booking_ads, pc, request, browser>>

\* ------------------------------------------------------- specifications
Extract(p, pages) ==
    \/ \E ok \in BOOLEAN : Launch(p, ok)
    \/ \E ok \in BOOLEAN : Navigate(p, ok)
    \/ \E ok \in BOOLEAN : OpenPicker(p, ok)
    \/ \E found \in BOOLEAN, cells \in pages : PageScan(p, found, cells)
    \/ \E ok \in BOOLEAN : Advance(p, ok)
    \/ Return(p)
    \/ Except(p)
    \/ \E ok \in BOOLEAN : Finally(p, ok)

Next ==
    \/ \E p \in Workers, u \in ApiUrls : Receive(p, u)
    \/ \E p \in Workers : Normalize(p)
    \/ \E p \in Workers, ok \in BOOLEAN : Static(p, ok)
    \/ \E p \in Workers : Extract(p, ApiPages)
    \/ \E p \in Workers, o \in {"ok", "empty", "error"}, w \in BOOLEAN : Save(p, o, w)

Spec == Init /\ [][Next]_vars

\* one worker serving /scrape, and /ads/{id} calls
NextAds ==
    \/ \E u \in ApiUrls : Receive(1, u)
    \/ Normalize(1)
    \/ \E ok \in BOOLEAN : Static(1, ok)
    \/ Extract(1, ApiPages)
    \/ \E o \in {"ok", "empty", "error"}, w \in BOOLEAN : Save(1, o, w)
    \/ \E id \in AdIds, ok \in BOOLEAN : GetAd(id, ok)
    \/ GetAdDone

SpecAds == Init /\ [][NextAds]_vars

\* one call of scrape_calendar_prices(url), under any configured page bound
InitCal ==
    /\ MAX_CAL_MONTHS \in (0..MaxMonthsCfg) \cup {DefaultMaxCalMonths}
    /\ booking_ads = {}
    /\ requests = 1
    /\ get_resp = NoGet
    /\ \E u \in ApiUrls :
          /\ url = [p \in Workers |-> IF p = 1 THEN u ELSE NoUrl]
          /\ canonical_url = [p \in Workers |-> IF p = 1 THEN canonicalize_url(u) ELSE NoUrl]
          /\ url_hash = [p \in Workers |-> url_md5(canonical_url[p])]
          /\ fetched = [p \in Workers |-> IF p = 1 THEN u ELSE NoUrl]
    /\ pc = [p \in Workers |-> IF p = 1 THEN "launch" ELSE "idle"]
    /\ driven = [p \in Workers |-> NoUrl]
    /\ driver = [p \in Workers |-> "None"]
    /\ scanned = [p \in Workers |-> 0]
    /\ clicks = [p \in Workers |-> 0]
    /\ prices = [p \in Workers |-> <<>>]
    /\ ret = [p \in Workers |-> NoRet]
    /\ response = [p \in Workers |-> NoResponse]

NextCal == Extract(1, Pages)

SpecCal == InitCal /\ [][NextCal]_vars

\* every step of the extractor is a blocking call with a bounded wait
FairSpecCal == SpecCal /\ WF_vars(NextCal)


\* ------------------------------------------------- URL pairs (normaliser)
Schemes == {<<>>, <<"s", ":">>, <<"S", ":">>, <<"x", ":">>}
Authorities == {<<>>, <<"/", "/">>, <<"/", "/", "h">>}
Paths == SeqsUpTo({"/", "p"}, MaxPathLen)

\* what precedes the query and the fragment
Bases == {s \o a \o t : s \in Schemes, a \in Authorities, t \in Paths}

\* a query or fragment part: absent, or present with a text
Absent == [has |-> FALSE, text |-> <<>>]
Queries == {Absent, [has |-> TRUE, text |-> <<"k", "/">>], [has |-> TRUE, text |-> <<"?", ":">>]}
Fragments == {Absent, [has |-> TRUE, text |-> <<"f", "?", "k", "/">>]}

\* the URL text: base, an optional trailing slash, ?query, #fragment
Render(base, slash, q, f) ==
    base \o (IF slash THEN <<"/">> ELSE <<>>)
         \o (IF q.has THEN <<"?">> \o q.text ELSE <<>>)
         \o (IF f.has THEN <<"#">> \o f.text ELSE <<>>)

Variants(base) == {Render(base, sl, q, f) : sl \in BOOLEAN, q \in Queries, f \in Fragments}

\* two /scrape calls whose URLs differ only in query, fragment or trailing slash
InitUrl ==
    /\ MAX_CAL_MONTHS = DefaultMaxCalMonths
    /\ booking_ads = {}
    /\ requests = 2
    /\ get_resp = NoGet
    /\ \E b \in Bases : \E a1 \in Variants(b), a2 \in Variants(b) :
          url = [p \in Workers |-> IF p = 1 THEN a1 ELSE a2]
    /\ pc = [p \in Workers |-> "normalize"]
    /\ canonical_url = [p \in Workers |-> NoUrl]
    /\ url_hash = [p \in Workers |-> url_md5(NoUrl)]
    /\ fetched = [p \in Workers |-> NoUrl]
    /\ driven = [p \in Workers |-> NoUrl]
    /\ driver = [p \in Workers |-> "None"]
    /\ scanned = [p \in Workers |-> 0]
    /\ clicks = [p \in Workers |-> 0]
    /\ prices = [p \in Workers |-> <<>>]
    /\ ret = [p \in Workers |-> NoRet]
    /\ response = [p \in Workers |-> NoResponse]

NextUrl == \E p \in Workers : Normalize(p)

SpecUrl == InitUrl /\ [][NextUrl]_vars


\* =================================================================== claims

\* ---- C1 -----------------------------------------------------------------
Rows(table, h) == {r \in table : r.url_hash = h}

OneRowPerHash == \A r1, r2 \in booking_ads : r1.url_hash = r2.url_hash => r1 = r2

\* a step that changes the table is the upsert of a worker's payload: afterwards
\* the payload's url_hash has exactly one row, holding the payload; a row that
\* was there keeps its id and no row is added; every other row is untouched
UpsertOverwrites ==
    booking_ads' # booking_ads =>
        \E p \in Workers :
            /\ pc[p] = "save"
            /\ pc'[p] = "idle"
            /\ LET h == url_hash[p]
                   old == Rows(booking_ads, h)
                   new == Rows(booking_ads', h)
               IN  /\ Cardinality(new) = 1
                   /\ \A r \in new : /\ r.url = canonical_url[p]
                                     /\ r.calendar_prices = ret[p].value
                                     /\ \A o \in old : o.id = r.id
                   /\ old # {} => Cardinality(booking_ads') = Cardinality(booking_ads)
                   /\ booking_ads' \ new = booking_ads \ old

\* C1: after any interleaving of /scrape calls the table holds at most one row
\* per url_hash; scraping a URL whose canonical form is stored overwrites that
\* row, the last write winning, and adds no second row
C1_OneRowPerUrlHash == []OneRowPerHash /\ [][UpsertOverwrites]_vars

\* both workers scraped URLs of one canonical form, given differently, and the
\* second upsert replaced the calendar the first had stored
C1_Witness ==
    /\ pc[1] = "idle" /\ pc[2] = "idle"
    /\ response[1].status = 200 /\ response[2].status = 200
    /\ url[1] # url[2]
    /\ url_hash[1] = url_hash[2]
    /\ response[1].data[1].calendar_prices # response[2].data[1].calendar_prices
    /\ Cardinality(booking_ads) = 1

\* ---- C2 -----------------------------------------------------------------
Chars(s) == {s[i] : i \in 1..Len(s)}

BothNormalized == \A p \in Workers : pc[p] = "static"

\* C2: URLs that differ only in query string, fragment or trailing slash get
\* the same canonical string, which carries no query, no fragment and no
\* trailing slash, and the same hash
C2_SameCanonicalAndHash ==
    BothNormalized =>
        /\ canonical_url[1] = canonical_url[2]
        /\ url_hash[1] = url_hash[2]
        /\ url_hash[1] = url_md5(canonical_url[1])
        /\ "?" \notin Chars(canonical_url[1])
        /\ "#" \notin Chars(canonical_url[1])
        /\ canonical_url[1] = <<>> \/ canonical_url[1][Len(canonical_url[1])] # "/"

\* a pair differing in all three ways: one with a query and a trailing slash,
\* the other with a fragment, normalised to s://h/p
C2_Witness ==
    /\ BothNormalized
    /\ url[1] = <<"s", ":", "/", "/", "h", "/", "p", "/", "?", "k", "/">>
    /\ url[2] = <<"s", ":", "/", "/", "h", "/", "p", "#", "f", "?", "k", "/">>
    /\ canonical_url[1] = U_plain
    /\ canonical_url[2] = U_plain


\* ---- C3 -----------------------------------------------------------------
\* scrape_calendar_prices has ended: its caller goes on, or the request is over
Exited(p) == pc[p] \in {"save", "idle"}

\* C3: when scrape_calendar_prices ends, on whatever path, quit has been called
\* on the session it opened; only a launch that failed leaves nothing to quit
C3_SessionQuitOnEveryPath ==
    \A p \in Workers :
        Exited(p) => /\ driver[p] # "live"
                     /\ driver[p] = "None" => driven[p] = NoUrl

\* an exception after a page with prices was scanned: the session is quit
C3_Witness ==
    /\ pc[1] = "save"
    /\ ret[1].kind = "except"
    /\ scanned[1] >= 1
    /\ prices[1] # <<>>
    /\ driver[1] = "quit"

\* ---- C4 -----------------------------------------------------------------
\* C4: scrape_calendar_prices never propagates a failure to its caller,
\* whichever step fails, releasing the session included: it ends with a
\* mapping, the empty one when an exception left the page sequence
C4_NeverPropagates ==
    \A p \in Workers :
        /\ ret[p].kind # "raise"
        /\ ret[p].kind = "except" => ret[p].value = <<>>

\* ---- C6 -----------------------------------------------------------------
\* the cells of a page whose price text holds a digit
Parseable(cells) ==
    {i \in 1..Len(cells) : cells[i].found /\ StripNonDigits(cells[i].text) # <<>>}

\* the mapping the page gives: each such cell's date to its integer, the last
\* cell of a date deciding
PagePrices(cells) ==
    LET ix == Parseable(cells)
        last(d) == CHOOSE i \in ix : cells[i].date = d
                                     /\ \A j \in ix : cells[j].date = d => j <= i
    IN  [d \in {cells[i].date : i \in ix} |->
            ParseInt(StripNonDigits(cells[last(d)].text))]

Override(f, g) ==
    [k \in DOMAIN f \cup DOMAIN g |-> IF k \in DOMAIN g THEN g[k] ELSE f[k]]

\* C6: the prices accumulated from a scanned page are exactly its cells whose
\* price text parses to an integer once the non-digits are stripped, each
\* mapped to that integer; the other cells are left out and stop nothing
C6_PagePricesExact ==
    [][\A p \in Workers : \A cells \in Pages :
          (PageScan(p, TRUE, cells) /\ scanned'[p] = scanned[p] + 1)
              => AsMap(prices'[p]) = Override(AsMap(prices[p]), PagePrices(cells))]_vars

\* ---- C7 -----------------------------------------------------------------
Ascending(d) == \A i, j \in 1..Len(d) : i < j => StrLess(d[i][1], d[j][1])

\* C7: the value returned after the page loop ended, the next-page control
\* failing or the page bound being exhausted, is the accumulated mapping, one
\* item per date, in ascending order of the date keys
C7_ReturnsSortedAccumulated ==
    \A p \in Workers :
        ret[p].kind = "return" =>
            /\ clicks[p] < scanned[p] \/ scanned[p] = MAX_CAL_MONTHS
            /\ AsMap(ret[p].value) = AsMap(prices[p])
            /\ Len(ret[p].value) = Cardinality(DictKeys(prices[p]))
            /\ Ascending(ret[p].value)

\* returned after a failed click, the later date having been met first
C7_Witness ==
    /\ pc[1] = "save"
    /\ ret[1].kind = "return"
    /\ clicks[1] < scanned[1]
    /\ Len(prices[1]) = 2
    /\ prices[1][1][1] = <<1, 0>>
    /\ ret[1].value[1][1] = <<0, 2>>

\* ---- C9 -----------------------------------------------------------------
AdvanceSucceeded(p) == pc[p] = "advance" /\ clicks'[p] = clicks[p] + 1
AdvanceFailed(p) == pc[p] = "advance" /\ pc'[p] # "advance" /\ clicks'[p] = clicks[p]
PastLoop(p) == pc[p] \in {"return", "except", "finally", "save"}

WithinPageBound ==
    \A p \in Workers : scanned[p] <= MAX_CAL_MONTHS /\ clicks[p] <= MAX_CAL_MONTHS

NoScanPastLoop ==
    \A p \in Workers :
        /\ AdvanceFailed(p) => pc'[p] = "return"
        /\ PastLoop(p) => pc'[p] # "page_scan" /\ scanned'[p] = scanned[p]

\* C9 as stated: the extraction ends, at most MAX_CAL_MONTHS pages are scanned
\* and clicks made, no page is scanned after a failed Advance, and a successful
\* Advance always leads back to PageScan
C9_AdvanceAlwaysRescans ==
    /\ []WithinPageBound
    /\ [][NoScanPastLoop]_vars
    /\ [][\A p \in Workers : AdvanceSucceeded(p) => pc'[p] = "page_scan"]_vars
    /\ <>Exited(1)

\* C9 amended: a successful Advance leads back to PageScan while fewer than
\* MAX_CAL_MONTHS pages were scanned, and to Done after the last page
C9_BoundedPageLoop ==
    /\ []WithinPageBound
    /\ [][NoScanPastLoop]_vars
    /\ [][\A p \in Workers :
            AdvanceSucceeded(p) =>
                pc'[p] = IF scanned[p] < MAX_CAL_MONTHS THEN "page_scan" ELSE "return"]_vars
    /\ <>Exited(1)

\* the default twelve pages were scanned and twelve clicks made
C9_Witness ==
    /\ MAX_CAL_MONTHS = DefaultMaxCalMonths
    /\ pc[1] = "save"
    /\ scanned[1] = MAX_CAL_MONTHS
    /\ clicks[1] = MAX_CAL_MONTHS


\* ---- C5 -----------------------------------------------------------------
Answered(p) == pc[p] = "idle" /\ response[p] # NoResponse

\* how a finished /scrape request may have ended: success after the fetch and
\* an upsert that returned the row, 502 after a failed fetch with the calendar
\* never entered, or 500 after an upsert that was issued and failed; a calendar
\* extraction that failed left an empty mapping and is none of the errors
ScrapeOutcome(p) ==
    \/ /\ response[p].status = 200
       /\ fetched[p] # NoUrl
       /\ ret[p].kind \in {"return", "except"}
       /\ response[p].data[1].url_hash = url_hash[p]
       /\ response[p].data[1].calendar_prices = ret[p].value
       /\ ret[p].kind = "except" => response[p].data[1].calendar_prices = <<>>
    \/ /\ response[p].status = 502
       /\ ret[p].kind = "none"
       /\ driver[p] = "None"
    \/ /\ response[p].status = 500
       /\ ret[p].kind \in {"return", "except"}

\* a request answered 502 issued no upsert
FetchFailureLeavesStore ==
    \A p \in Workers :
        (response'[p].status = 502 /\ response[p].status # 502) => booking_ads' = booking_ads

\* C5: /scrape succeeds only after a successful fetch and an upsert that
\* returned data; a fetch failure gives 502 and no upsert, an empty or failed
\* upsert gives 500, and a failed calendar extraction is no error: the record
\* is upserted with an empty calendar_prices
C5_ScrapeOutcomes ==
    /\ [](\A p \in Workers : Answered(p) => ScrapeOutcome(p))
    /\ [][FetchFailureLeavesStore]_vars

\* ---- C8 -----------------------------------------------------------------
\* the answer matches what the select did
GetAdAnswer ==
    /\ get_resp.select = "empty" => get_resp.status = 404 /\ get_resp.data = <<>>
    /\ get_resp.select = "error" => get_resp.status = 500 /\ get_resp.data = <<>>
    /\ get_resp.status = 200 =>
          /\ get_resp.select = "row"
          /\ get_resp.data # <<>>
          /\ get_resp.data[1].id = get_resp.ad_id

\* the answer matches the table at the time of the call
GetAdReadsStore ==
    (get_resp = NoGet /\ get_resp' # NoGet) =>
        LET rows == {r \in booking_ads : r.id = get_resp'.ad_id}
        IN  /\ rows = {} => get_resp'.status \in {404, 500} /\ get_resp'.data = <<>>
            /\ get_resp'.select = "empty" <=> (rows = {} /\ get_resp'.status = 404)
            /\ get_resp'.status = 200 => get_resp'.data[1] \in rows

\* C8: GET /ads/{id} for an id with no row answers 404, never a success with
\* empty data and never a 500 made of the 404; it succeeds only with the row of
\* that id; a failing select answers 500
C8_GetAdNotFound == []GetAdAnswer /\ [][GetAdReadsStore]_vars

\* a 404 for an id no row has, while the table holds another row
C8_Witness ==
    /\ get_resp.status = 404
    /\ booking_ads # {}
    /\ \A r \in booking_ads : r.id # get_resp.ad_id

\* ---- C10 ----------------------------------------------------------------
\* C10: the page fetcher, the static extractor and the calendar extractor are
\* called with the canonical URL, the string stored in url and hashed
C10_ExtractorsGetCanonicalUrl ==
    \A p \in Workers :
        /\ fetched[p] # NoUrl => fetched[p] = canonical_url[p]
        /\ driven[p] # NoUrl => driven[p] = canonical_url[p]

====
